---- MODULE Spec2Model ----
(***************************************************************************)
(* A model of art/classifiers/classifier.py: the abstract classifier base  *)
(* classes of the Adversarial Robustness Toolbox.  The module covers the   *)
(* constructor's validation of clip_values and preprocessing, the forward  *)
(* preprocessing pipeline (label format, defences, standardisation), the   *)
(* backward gradient pipeline, the postprocessing pipeline, the            *)
(* input_filter metaclass wrapper, fit_generator and layer_names.          *)
(*                                                                         *)
(* Numbers are exact rationals [n, d] (d = 0 encodes numpy's inf, -inf and *)
(* nan: 1/0, -1/0 and 0/0); floating-point rounding is not modelled.       *)
(* Python's None is the option value NoneVal; a tuple or list is           *)
(* [kind |-> ..., v |-> <<...>>].                                          *)
(***************************************************************************)
EXTENDS Integers, Sequences, FiniteSets, TLC

VARIABLES clf, call

vars == <<clf, call>>

(***************************************************************************)
(* Bounds of the model.                                                    *)
(***************************************************************************)
\* Longest clip_values / preprocessing tuple passed to the constructor.
MaxTupleLen == 3
\* Longest list of preprocessing or postprocessing defences.
MaxDefences == 2
\* Largest nb_epochs passed to fit_generator.
MaxEpochs == 2
\* Largest generator.size.
MaxSize == 4

(***************************************************************************)
(* Python values.                                                          *)
(***************************************************************************)
NoneVal == [kind |-> "none", v |-> <<>>]
TupleOf(s) == [kind |-> "tuple", v |-> s]
ListOf(s) == [kind |-> "list", v |-> s]

\* len(t) of a tuple or list.
PyLen(t) == Len(t.v)

\* All sequences over S of length lo..hi.
SeqsOf(S, lo, hi) == UNION {[1..n -> S] : n \in lo..hi}

(***************************************************************************)
(* Exact rational arithmetic standing for numpy's float arithmetic.        *)
(***************************************************************************)
Abs(i) == IF i < 0 THEN -i ELSE i
Sgn(i) == IF i < 0 THEN -1 ELSE IF i > 0 THEN 1 ELSE 0

RECURSIVE GCD(_, _)
GCD(a, b) == IF b = 0 THEN a ELSE GCD(b, a % b)

\* The rational n/d in lowest terms with d >= 0; d = 0 is inf, -inf or nan.
R(n, d) ==
    IF d = 0 THEN [n |-> Sgn(n), d |-> 0]
    ELSE LET g == GCD(Abs(n), Abs(d))
             s == Sgn(d)
         IN [n |-> (s * n) \div g, d |-> (s * d) \div g]

Int2R(i) == R(i, 1)
RSub(a, b) == IF a.d = 0 \/ b.d = 0 THEN R(a.n * b.d - b.n * a.d, 0)
              ELSE R(a.n * b.d - b.n * a.d, a.d * b.d)
RAdd(a, b) == IF a.d = 0 \/ b.d = 0 THEN R(a.n * b.d + b.n * a.d, 0)
              ELSE R(a.n * b.d + b.n * a.d, a.d * b.d)
RMul(a, b) == R(a.n * b.n, a.d * b.d)
\* numpy true division: x/0 is inf, -inf or nan, never an exception.
RDiv(a, b) == R(a.n * b.d * Sgn(b.n + (IF b.n = 0 THEN 1 ELSE 0)), a.d * Abs(b.n))

\* Conversion of a float to an integer dtype truncates toward zero.
Trunc(a) == IF a.n >= 0 THEN Int2R(a.n \div a.d) ELSE Int2R(-((-a.n) \div a.d))

(***************************************************************************)
(* numpy arrays: [dtype, data], data a sequence of rows of rationals.      *)
(***************************************************************************)
UnsignedDtypes == {"uint8", "uint16", "uint32", "uint64"}
IntDtypes == UnsignedDtypes \cup {"int32"}
FloatDtypes == {"float32", "float64"}

Arr(dtype, data) == [dtype |-> dtype, data |-> data]

\* Element-wise operations of an array's data with a scalar.
AddAll(data, c) == [i \in DOMAIN data |-> [j \in DOMAIN data[i] |-> RAdd(data[i][j], c)]]
SubAll(data, c) == [i \in DOMAIN data |-> [j \in DOMAIN data[i] |-> RSub(data[i][j], c)]]
MulAll(data, c) == [i \in DOMAIN data |-> [j \in DOMAIN data[i] |-> RMul(data[i][j], c)]]
DivAll(data, c) == [i \in DOMAIN data |-> [j \in DOMAIN data[i] |-> RDiv(data[i][j], c)]]

\* np.asarray(value, dtype=dtype) of a Python float.
asarray(value, dtype) == IF dtype \in IntDtypes THEN Trunc(value) ELSE value

\* dtype of array / array (true division).
TrueDivDtype(dtype) == IF dtype \in IntDtypes THEN "float64" ELSE dtype

(***************************************************************************)
(* Classifier.__init__: validation of clip_values and preprocessing.       *)
(***************************************************************************)
\* The state of a name that holds no instance (construction raised, or has
\* not happened).
NoInstance == [constructed |-> FALSE]

\* One element of clip_values: a float (scalar) or an array holding one bound
\* per feature.  Element i of the bound after numpy's broadcasting:
BoundAt(b, i) == IF b.scalar THEN b.vals[1] ELSE b.vals[i]

\* The indices of the broadcast of two bounds.
BroadcastIdx(a, b) ==
    IF a.scalar /\ b.scalar THEN {1}
    ELSE 1..(IF a.scalar THEN Len(b.vals) ELSE Len(a.vals))

\* len(clip_values) != 2
clip_values_len_invalid(clip_values) == PyLen(clip_values) # 2

\* The comparison made with > in place of >=.
min_gt_max_any(clip_values) ==
    \E i \in BroadcastIdx(clip_values.v[1], clip_values.v[2]) :
        BoundAt(clip_values.v[1], i) > BoundAt(clip_values.v[2], i)

\* np.array(clip_values[0] >= clip_values[1]).any()
min_ge_max_any(clip_values) ==
    \E i \in BroadcastIdx(clip_values.v[1], clip_values.v[2]) :
        BoundAt(clip_values.v[1], i) >= BoundAt(clip_values.v[2], i)

\* The length test made with < 2 in place of != 2.
preprocessing_len_below_2(preprocessing) ==
    preprocessing.kind # "none" /\ PyLen(preprocessing) < 2

\* preprocessing is not None and len(preprocessing) != 2
preprocessing_len_invalid(preprocessing) ==
    preprocessing.kind # "none" /\ PyLen(preprocessing) # 2

\* isinstance(defences, Preprocessor / Postprocessor): a single defence is
\* wrapped into a list, anything else is stored as given.
wrap_defences(defences) ==
    IF defences.kind = "single" THEN ListOf(defences.v) ELSE defences

\* The constructor: [raised, self].  raised = "none" is a normal return.
Classifier__init__(clip_values, preprocessing_defences, postprocessing_defences, preprocessing) ==
    IF clip_values.kind # "none" /\ clip_values_len_invalid(clip_values)
    THEN [raised |-> "ValueError", self |-> NoInstance]
    ELSE IF clip_values.kind # "none" /\ min_ge_max_any(clip_values)
    THEN [raised |-> "ValueError", self |-> NoInstance]
    ELSE IF preprocessing_len_invalid(preprocessing)
    THEN [raised |-> "ValueError", self |-> NoInstance]
    ELSE [raised |-> "none",
          self |-> [constructed |-> TRUE,
                    clip_values |-> clip_values,
                    preprocessing_defences |-> wrap_defences(preprocessing_defences),
                    postprocessing_defences |-> wrap_defences(postprocessing_defences),
                    preprocessing |-> preprocessing]]

\* s[::-1] as a value: the elements of s in reverse order.
Reverse(s) == [k \in 1..Len(s) |-> s[Len(s) + 1 - k]]

(***************************************************************************)
(* Defences (external collaborators): a name, the two applicability flags. *)
(***************************************************************************)
Defence(name, apply_fit, apply_predict) ==
    [name |-> name, apply_fit |-> apply_fit, apply_predict |-> apply_predict]

PreprocessorNames == {"Shift", "Double"}
PostprocessorNames == {"InPlace", "Fresh"}

Preprocessors == {Defence(n, f, p) : n \in PreprocessorNames, f \in BOOLEAN, p \in BOOLEAN}
Postprocessors == {Defence(n, f, p) : n \in PostprocessorNames, f \in BOOLEAN, p \in BOOLEAN}

(***************************************************************************)
(* Labels and the label formatter (art.utils, an external collaborator).   *)
(* A label array is [fmt, data, via]: fmt is "none" (y is None), "index"   *)
(* (one row <<class index>> per sample) or "onehot" (one row of nb_classes *)
(* entries per sample); via lists the defences that have transformed it.   *)
(***************************************************************************)
NoLabels == [fmt |-> "none", data |-> <<>>, via |-> <<>>]
IndexLabels(s) == [fmt |-> "index", data |-> s, via |-> <<>>]
OneHotLabels(rows) == [fmt |-> "onehot", data |-> rows, via |-> <<>>]

\* The abstract nb_classes() as answered by the concrete classifier.
nb_classes(self) == 2

\* check_and_transform_label_format(labels, nb_classes): index labels become
\* one-hot rows, one-hot labels and None are returned as they are.
check_and_transform_label_format(labels, n) ==
    IF labels.fmt = "index"
    THEN [labels EXCEPT !.fmt = "onehot",
                        !.data = [i \in DOMAIN labels.data |->
                                    [c \in 1..n |-> IF labels.data[i][1] = c - 1 THEN 1 ELSE 0]]]
    ELSE labels

(***************************************************************************)
(* Preprocessing defences (external collaborators).  "Shift" adds 1 to     *)
(* every feature and keeps the dtype and the labels; "Double" returns the  *)
(* features doubled as float32 and transforms the labels.  Their gradient  *)
(* estimates are the derivatives: the identity and a doubling.             *)
(***************************************************************************)
\* defence(x, y)
DefenceCall(defence, x, y) ==
    IF defence.name = "Shift"
    THEN [x |-> Arr(x.dtype, AddAll(x.data, Int2R(1))), y |-> y]
    ELSE [x |-> Arr("float32", MulAll(x.data, Int2R(2))),
          y |-> IF y.fmt = "none" THEN y ELSE [y EXCEPT !.via = Append(@, defence.name)]]

\* defence.estimate_gradient(x, gradients)
estimate_gradient(defence, x, gradients) ==
    IF defence.name = "Shift"
    THEN gradients
    ELSE Arr(gradients.dtype, MulAll(gradients.data, Int2R(2)))

(***************************************************************************)
(* The forward pipeline.  Every operator returns the calls it made, in     *)
(* order, as a trace of events.                                            *)
(***************************************************************************)
\* The filter reading apply_predict in both modes.
always_apply_predict(defence, fit) == defence.apply_predict

\* if fit: if defence.apply_fit ... else: if defence.apply_predict ...
defence_applies(defence, fit) ==
    IF fit THEN defence.apply_fit ELSE defence.apply_predict

\* The loop of _apply_preprocessing_defences from list position i on.
RECURSIVE preprocessing_defences_loop(_, _, _, _, _, _)
preprocessing_defences_loop(defences, i, x, y, fit, trace) ==
    IF i > Len(defences) THEN [x |-> x, y |-> y, trace |-> trace]
    ELSE IF defence_applies(defences[i], fit)
    THEN LET r == DefenceCall(defences[i], x, y)
         IN preprocessing_defences_loop(defences, i + 1, r.x, r.y, fit,
                Append(trace, [op |-> "defence", idx |-> i, x |-> x, y |-> y]))
    ELSE preprocessing_defences_loop(defences, i + 1, x, y, fit, trace)

_apply_preprocessing_defences(self, x, y, fit) ==
    IF self.preprocessing_defences.kind # "none"
    THEN preprocessing_defences_loop(self.preprocessing_defences.v, 1, x, y, fit, <<>>)
    ELSE [x |-> x, y |-> y, trace |-> <<>>]

\* The dtype test against np.uint8 alone.
dtype_rejected_uint8_only(dtype) == dtype = "uint8"

\* x.dtype in [np.uint8, np.uint16, np.uint32, np.uint64]
dtype_rejected(dtype) == dtype \in UnsignedDtypes

\* The two operations in the other order: x / div - sub.
divide_then_subtract(x, sub, div) ==
    LET res1 == DivAll(x.data, div)
    IN Arr(TrueDivDtype(x.dtype), SubAll(res1, sub))

\* res = x - sub; res = res / div
subtract_then_divide(x, sub, div) ==
    LET res1 == SubAll(x.data, sub)
    IN Arr(TrueDivDtype(x.dtype), DivAll(res1, div))

\* The dtype test made only inside the branch of a configured pair.
dtype_check_only_with_pair(self, x) ==
    IF self.preprocessing.kind # "none"
    THEN IF dtype_rejected(x.dtype)
         THEN [raised |-> "TypeError", res |-> x, trace |-> <<>>]
         ELSE LET sub == asarray(self.preprocessing.v[1], x.dtype)
                  div == asarray(self.preprocessing.v[2], x.dtype)
              IN [raised |-> "none",
                  res |-> subtract_then_divide(x, sub, div),
                  trace |-> <<[op |-> "subtract", x |-> x, by |-> sub],
                              [op |-> "divide", by |-> div]>>]
    ELSE [raised |-> "none", res |-> x, trace |-> <<>>]

_apply_preprocessing_standardisation(self, x) ==
    IF dtype_rejected(x.dtype)
    THEN [raised |-> "TypeError", res |-> x, trace |-> <<>>]
    ELSE IF self.preprocessing.kind # "none"
    THEN LET sub == asarray(self.preprocessing.v[1], x.dtype)
             div == asarray(self.preprocessing.v[2], x.dtype)
         IN [raised |-> "none",
             res |-> subtract_then_divide(x, sub, div),
             trace |-> <<[op |-> "subtract", x |-> x, by |-> sub],
                         [op |-> "divide", by |-> div]>>]
    ELSE [raised |-> "none", res |-> x, trace |-> <<>>]

_apply_preprocessing(self, x, y, fit) ==
    LET y1 == check_and_transform_label_format(y, nb_classes(self))
        d == _apply_preprocessing_defences(self, x, y1, fit)
        s == _apply_preprocessing_standardisation(self, d.x)
    IN [raised |-> s.raised,
        x |-> s.res,
        y |-> d.y,
        trace |-> <<[op |-> "check_and_transform_label_format", y |-> y]>>
                  \o d.trace
                  \o <<[op |-> "standardisation", x |-> d.x]>>
                  \o s.trace]

(***************************************************************************)
(* The backward (gradient) pipeline of ClassifierGradients.                *)
(***************************************************************************)
\* The backward filter reading apply_fit whatever the mode.
gradient_reads_apply_fit(defence, fit) == defence.apply_fit

\* if fit: if defence.apply_fit ... else: if defence.apply_predict ...
gradient_defence_applies(defence, fit) ==
    IF fit THEN defence.apply_fit ELSE defence.apply_predict

\* The loop over self.preprocessing_defences[::-1], from list position i down.
RECURSIVE defences_gradient_loop(_, _, _, _, _, _)
defences_gradient_loop(defences, i, x, gradients, fit, trace) ==
    IF i < 1 THEN [gradients |-> gradients, trace |-> trace]
    ELSE IF gradient_defence_applies(defences[i], fit)
    THEN defences_gradient_loop(defences, i - 1, x,
            estimate_gradient(defences[i], x, gradients), fit,
            Append(trace, [op |-> "estimate_gradient", idx |-> i, x |-> x,
                           gradients |-> gradients]))
    ELSE defences_gradient_loop(defences, i - 1, x, gradients, fit, trace)

\* The same loop walking the list forwards, from list position i up.
RECURSIVE defences_gradient_loop_forward(_, _, _, _, _, _)
defences_gradient_loop_forward(defences, i, x, gradients, fit, trace) ==
    IF i > Len(defences) THEN [gradients |-> gradients, trace |-> trace]
    ELSE IF gradient_defence_applies(defences[i], fit)
    THEN defences_gradient_loop_forward(defences, i + 1, x,
            estimate_gradient(defences[i], x, gradients), fit,
            Append(trace, [op |-> "estimate_gradient", idx |-> i, x |-> x,
                           gradients |-> gradients]))
    ELSE defences_gradient_loop_forward(defences, i + 1, x, gradients, fit, trace)

\* The backward pass over the list in forward order.
forward_order_gradient(self, x, gradients, fit) ==
    IF self.preprocessing_defences.kind # "none"
    THEN LET r == defences_gradient_loop_forward(self.preprocessing_defences.v, 1, x,
                                                 gradients, fit, <<>>)
         IN [gradients |-> r.gradients, trace |-> r.trace, self |-> self]
    ELSE [gradients |-> gradients, trace |-> <<>>, self |-> self]

\* self.preprocessing_defences.reverse(): the attribute's list reversed in place.
reverse_in_place(self) ==
    [self EXCEPT !.preprocessing_defences = ListOf(Reverse(@.v))]

\* The instance after self.preprocessing_defences[::-1] was evaluated: the
\* slice is a new list, and the attribute's list keeps its order.
slice_reversed(self) == self

\* Returns the gradients, the calls made and the instance as the call left it.
_apply_preprocessing_defences_gradient(self, x, gradients, fit) ==
    IF self.preprocessing_defences.kind # "none"
    THEN LET r == defences_gradient_loop(self.preprocessing_defences.v,
                                         Len(self.preprocessing_defences.v), x, gradients,
                                         fit, <<>>)
         IN [gradients |-> r.gradients, trace |-> r.trace, self |-> slice_reversed(self)]
    ELSE [gradients |-> gradients, trace |-> <<>>, self |-> self]

_apply_preprocessing_normalization_gradient(self, gradients) ==
    IF self.preprocessing.kind # "none"
    THEN LET div == asarray(self.preprocessing.v[2], gradients.dtype)
         IN Arr(TrueDivDtype(gradients.dtype),
                DivAll(gradients.data, div))
    ELSE gradients

\* The two steps in the other order: the defences first, the division last.
defences_then_normalization(self, x, gradients) ==
    LET d == _apply_preprocessing_defences_gradient(self, x, gradients, FALSE)
        g == _apply_preprocessing_normalization_gradient(d.self, d.gradients)
    IN [gradients |-> g,
        trace |-> d.trace \o <<[op |-> "normalization_gradient", gradients |-> d.gradients]>>,
        self |-> d.self]

\* The defences' backward pass is called without fit, which defaults to False.
_apply_preprocessing_gradient(self, x, gradients) ==
    LET g1 == _apply_preprocessing_normalization_gradient(self, gradients)
        d == _apply_preprocessing_defences_gradient(self, x, g1, FALSE)
    IN [gradients |-> d.gradients,
        trace |-> <<[op |-> "normalization_gradient", gradients |-> gradients]>> \o d.trace,
        self |-> d.self]

(***************************************************************************)
(* The postprocessing pipeline.  Prediction arrays are objects: heap[id]   *)
(* is the content of array id, and a new array takes the next id.          *)
(* Postprocessor "InPlace" adds 1 to the array it receives and returns     *)
(* that array; "Fresh" returns a new array holding the doubled values.     *)
(***************************************************************************)
\* post_preds = preds, without the copy.
no_copy(heap, id) == [heap |-> heap, id |-> id]

\* preds.copy()
ndarray_copy(heap, id) == [heap |-> Append(heap, heap[id]), id |-> Len(heap) + 1]

\* defence(post_preds)
PostDefenceCall(defence, heap, id) ==
    IF defence.name = "InPlace"
    THEN [heap |-> [heap EXCEPT ![id] = [j \in DOMAIN @ |-> @[j] + 1]], id |-> id]
    ELSE [heap |-> Append(heap, [j \in DOMAIN heap[id] |-> 2 * heap[id][j]]),
          id |-> Len(heap) + 1]

post_defence_applies(defence, fit) ==
    IF fit THEN defence.apply_fit ELSE defence.apply_predict

RECURSIVE postprocessing_defences_loop(_, _, _, _, _, _)
postprocessing_defences_loop(defences, i, heap, post_preds, fit, trace) ==
    IF i > Len(defences) THEN [heap |-> heap, ret |-> post_preds, trace |-> trace]
    ELSE IF post_defence_applies(defences[i], fit)
    THEN LET r == PostDefenceCall(defences[i], heap, post_preds)
         IN postprocessing_defences_loop(defences, i + 1, r.heap, r.id, fit,
                Append(trace, [op |-> "defence", idx |-> i, preds |-> post_preds]))
    ELSE postprocessing_defences_loop(defences, i + 1, heap, post_preds, fit, trace)

_apply_postprocessing(self, heap, preds, fit) ==
    LET c == ndarray_copy(heap, preds)
    IN IF self.postprocessing_defences.kind # "none"
       THEN postprocessing_defences_loop(self.postprocessing_defences.v, 1,
                                         c.heap, c.id, fit, <<>>)
       ELSE [heap |-> c.heap, ret |-> c.id, trace |-> <<>>]

(***************************************************************************)
(* Constructor arguments enumerated by the specifications.                 *)
(***************************************************************************)
Scalar(a) == [scalar |-> TRUE, vals |-> <<a>>]
PerFeature(s) == [scalar |-> FALSE, vals |-> s]

\* Bounds over the values 0 and 1: floats, and arrays for two features.
ClipBounds == {Scalar(a) : a \in {0, 1}} \cup {PerFeature(s) : s \in [1..2 -> {0, 1}]}

\* clip_values: None, every pair of bounds, and tuples of every other length.
ClipValuesArgs ==
    {NoneVal}
    \cup {TupleOf(s) : s \in [1..2 -> ClipBounds]}
    \cup {TupleOf(s) : s \in {t \in SeqsOf({Scalar(0), Scalar(1)}, 0, MaxTupleLen) : Len(t) # 2}}

Half == R(1, 2)
One == Int2R(1)

\* preprocessing: None and tuples of floats of length 0..MaxTupleLen.
PreprocessingArgs ==
    {NoneVal} \cup {TupleOf(s) : s \in SeqsOf({Half, One}, 0, MaxTupleLen)}

\* A defence argument: None, a single defence, or a list of defences.
DefenceArgShapes(d) == {NoneVal, [kind |-> "single", v |-> <<d>>], ListOf(<<d>>)}

(***************************************************************************)
(* SpecInit: construction alone, over every enumerated argument.           *)
(***************************************************************************)
NoCall == [op |-> "none"]

Init ==
    /\ clf = NoInstance
    /\ call = NoCall

ConstructWith(clip_values, preprocessing_defences, postprocessing_defences, preprocessing) ==
    /\ clf = NoInstance
    /\ call = NoCall
    /\ LET r == Classifier__init__(clip_values, preprocessing_defences,
                                   postprocessing_defences, preprocessing)
       IN /\ clf' = r.self
          /\ call' = [op |-> "__init__",
                      clip_values |-> clip_values,
                      preprocessing_defences |-> preprocessing_defences,
                      postprocessing_defences |-> postprocessing_defences,
                      preprocessing |-> preprocessing,
                      raised |-> r.raised]

ConstructAny ==
    \E cv \in ClipValuesArgs, pp \in PreprocessingArgs :
        \E pre \in DefenceArgShapes(Defence("Shift", TRUE, TRUE)),
           post \in DefenceArgShapes(Defence("Fresh", TRUE, TRUE)) :
            ConstructWith(cv, pre, post, pp)

NextInit == ConstructAny

SpecInit == Init /\ [][NextInit]_vars

\* C1: with a 2-element clip_values, construction raises ValueError and yields
\* no instance whenever min >= max holds for some element (after broadcasting a
\* scalar bound over a per-feature bound), and, the preprocessing tuple being
\* well formed, succeeds and stores the bounds whenever min < max everywhere.
C1_ClipOrder ==
    (call.op = "__init__" /\ call.clip_values.kind = "tuple"
        /\ Len(call.clip_values.v) = 2) =>
    LET lo == call.clip_values.v[1]
        hi == call.clip_values.v[2]
        n == IF lo.scalar /\ hi.scalar THEN 1
             ELSE IF lo.scalar THEN Len(hi.vals) ELSE Len(lo.vals)
        at(b, i) == IF b.scalar THEN b.vals[1] ELSE b.vals[i]
    IN /\ (\E i \in 1..n : at(lo, i) >= at(hi, i)) =>
              (call.raised = "ValueError" /\ clf = NoInstance)
       /\ ((\A i \in 1..n : at(lo, i) < at(hi, i))
              /\ (call.preprocessing.kind = "none" \/ Len(call.preprocessing.v) = 2)) =>
              (call.raised = "none" /\ clf.constructed
                  /\ clf.clip_values = call.clip_values)

\* A per-feature pair whose first feature is in order and whose second has
\* min = max was rejected.
C1_Witness ==
    /\ call.op = "__init__"
    /\ call.clip_values = TupleOf(<<PerFeature(<<0, 1>>), PerFeature(<<1, 1>>)>>)
    /\ call.raised = "ValueError"
    /\ clf = NoInstance

\* C2: a clip_values or preprocessing tuple whose length is not 2 makes
\* construction raise ValueError and yield no instance; None is accepted for
\* both.
C2_TupleArity ==
    (call.op = "__init__") =>
    /\ ((call.clip_values.kind = "tuple" /\ Len(call.clip_values.v) # 2)
         \/ (call.preprocessing.kind = "tuple" /\ Len(call.preprocessing.v) # 2)) =>
            (call.raised = "ValueError" /\ clf = NoInstance)
    /\ (call.clip_values.kind = "none" /\ call.preprocessing.kind = "none") =>
            (call.raised = "none" /\ clf.constructed
                /\ clf.clip_values = NoneVal /\ clf.preprocessing = NoneVal)

\* A preprocessing tuple of three floats was rejected although clip_values was
\* valid.
C2_Witness ==
    /\ call.op = "__init__"
    /\ call.clip_values = TupleOf(<<Scalar(0), Scalar(1)>>)
    /\ call.preprocessing.kind = "tuple" /\ Len(call.preprocessing.v) = 3
    /\ call.raised = "ValueError"
    /\ clf = NoInstance

(***************************************************************************)
(* Spec: a classifier is constructed once and its pipelines are called.    *)
(***************************************************************************)
Zero == Int2R(0)
Two == Int2R(2)

\* Lists of defences of length 0..MaxDefences, and None.
DefenceLists(D) == {NoneVal} \cup {ListOf(s) : s \in SeqsOf(D, 0, MaxDefences)}

UnitClip == TupleOf(<<Scalar(0), Scalar(1)>>)

ConstructPipeline ==
    \/ \E pre \in DefenceLists(Preprocessors), pp \in {NoneVal, TupleOf(<<Half, Half>>)} :
          ConstructWith(UnitClip, pre, NoneVal, pp)
    \/ \E pre \in {NoneVal, ListOf(<<>>)} :
          ConstructWith(UnitClip, pre, NoneVal, TupleOf(<<R(3, 2), Two>>))
    \/ \E post \in DefenceLists(Postprocessors) \ {NoneVal} :
          ConstructWith(UnitClip, NoneVal, post, NoneVal)

\* Inputs x: one sample of two features, of every dtype.
XArgs ==
    {Arr(t, <<<<One, Zero>>>>) : t \in IntDtypes \cup FloatDtypes}
    \cup {Arr(t, <<<<Half, Int2R(-1)>>>>) : t \in FloatDtypes}

\* Labels y for one sample: None, a class index, a one-hot row.
YArgs == {NoLabels, IndexLabels(<<<<1>>>>), OneHotLabels(<<<<0, 1>>>>)}

GradientArgs == {Arr("float32", <<<<One, Two>>>>), Arr("float64", <<<<Half, Int2R(-1)>>>>)}

PredsArgs == {<<1, 0>>}

\* The (x, y, fit) of the forward calls: every x without labels, and every
\* label format with a float32 x.
ForwardArgs ==
    {<<x, NoLabels, fit>> : x \in XArgs, fit \in BOOLEAN}
    \cup {<<Arr("float32", <<<<One, Zero>>>>), y, fit>> : y \in YArgs, fit \in BOOLEAN}

ApplyPreprocessing ==
    /\ clf.constructed
    /\ \E a \in ForwardArgs :
        LET x == a[1]
            y == a[2]
            fit == a[3]
            r == _apply_preprocessing(clf, x, y, fit)
        IN call' = [op |-> "_apply_preprocessing", x |-> x, y |-> y, fit |-> fit,
                    raised |-> r.raised,
                    x_preprocessed |-> r.x, y_preprocessed |-> r.y,
                    trace |-> r.trace]
    /\ UNCHANGED clf

ApplyPreprocessingGradient ==
    /\ clf.constructed
    /\ \E x \in {Arr("float32", <<<<One, Zero>>>>)}, gradients \in GradientArgs :
        LET r == _apply_preprocessing_gradient(clf, x, gradients)
        IN /\ call' = [op |-> "_apply_preprocessing_gradient", x |-> x,
                       gradients |-> gradients,
                       result |-> r.gradients, trace |-> r.trace]
           /\ clf' = r.self

ApplyPostprocessing ==
    /\ clf.constructed
    /\ \E preds \in PredsArgs, fit \in BOOLEAN :
        LET r == _apply_postprocessing(clf, <<preds>>, 1, fit)
        IN call' = [op |-> "_apply_postprocessing", preds |-> 1, fit |-> fit,
                    heap_before |-> <<preds>>, heap |-> r.heap, ret |-> r.ret,
                    trace |-> r.trace]
    /\ UNCHANGED clf

Next ==
    \/ ConstructPipeline
    \/ ApplyPreprocessing
    \/ ApplyPreprocessingGradient
    \/ ApplyPostprocessing

Spec == Init /\ [][Next]_vars

(***************************************************************************)
(* Properties of the pipelines.                                            *)
(***************************************************************************)
\* The events of a trace made by operation op, in order.
EventsOf(trace, op) == SelectSeq(trace, LAMBDA e : e.op = op)

\* The list positions of the defences called in a trace, in call order.
CalledIdx(trace, op) == LET ev == EventsOf(trace, op) IN [k \in DOMAIN ev |-> ev[k].idx]

\* The classifier's preprocessing defences as a sequence (None: none).
PreDefences == IF clf.preprocessing_defences.kind = "none" THEN <<>>
               ELSE clf.preprocessing_defences.v

PostDefences == IF clf.postprocessing_defences.kind = "none" THEN <<>>
                ELSE clf.postprocessing_defences.v

\* The flag of a defence for a mode.
FlagFor(defence, fit) == IF fit THEN defence.apply_fit ELSE defence.apply_predict

\* The positions of the defences whose flag for the mode is true, ascending.
RECURSIVE ActiveFrom(_, _, _)
ActiveFrom(defences, i, fit) ==
    IF i > Len(defences) THEN <<>>
    ELSE (IF FlagFor(defences[i], fit) THEN <<i>> ELSE <<>>)
         \o ActiveFrom(defences, i + 1, fit)

IsForwardCall == call.op = "_apply_preprocessing"
IsGradientCall == call.op = "_apply_preprocessing_gradient"
IsPostCall == call.op = "_apply_postprocessing"

\* C3 as stated: an unsigned x with a standardisation pair configured raises
\* TypeError before the subtract/divide and before any defence was called.
C3_Original ==
    (IsForwardCall /\ call.x.dtype \in UnsignedDtypes /\ clf.preprocessing.kind # "none") =>
        /\ call.raised = "TypeError"
        /\ EventsOf(call.trace, "subtract") = <<>>
        /\ EventsOf(call.trace, "divide") = <<>>
        /\ EventsOf(call.trace, "defence") = <<>>

\* C3 (amended): with a standardisation pair configured, the dtype check is
\* made on the array that reaches standardisation, after every active defence
\* has been called: if that array is unsigned, TypeError is raised and neither
\* the subtraction nor the division is made; if it is not, no error is raised.
\* An unsigned x whose active defences all keep the dtype therefore raises,
\* with those defences already called.
C3_DtypeCheckAfterDefences ==
    (IsForwardCall /\ clf.preprocessing.kind # "none") =>
    LET std == EventsOf(call.trace, "standardisation")
        active == ActiveFrom(PreDefences, 1, call.fit)
    IN /\ Len(std) = 1
       /\ CalledIdx(call.trace, "defence") = active
       /\ (std[1].x.dtype \in UnsignedDtypes) <=> (call.raised = "TypeError")
       /\ call.raised = "TypeError" =>
             /\ EventsOf(call.trace, "subtract") = <<>>
             /\ EventsOf(call.trace, "divide") = <<>>
       /\ call.raised = "none" =>
             /\ Len(EventsOf(call.trace, "subtract")) = 1
             /\ Len(EventsOf(call.trace, "divide")) = 1
       /\ (call.x.dtype \in UnsignedDtypes
             /\ \A k \in DOMAIN active : PreDefences[active[k]].name = "Shift") =>
             call.raised = "TypeError"

\* A uint16 input was rejected after the one active defence had been called.
C3_Witness ==
    /\ IsForwardCall
    /\ call.x.dtype = "uint16"
    /\ clf.preprocessing = TupleOf(<<Half, Half>>)
    /\ call.raised = "TypeError"
    /\ CalledIdx(call.trace, "defence") = <<1>>

\* C4: the forward pipeline formats the labels first, then calls exactly the
\* defences whose flag for the mode is true, in list order, each on the (x, y)
\* returned by the previously called defence, and standardises the output of
\* the last called defence after all of them.
C4_ForwardOrder ==
    IsForwardCall =>
    LET t == call.trace
        d == EventsOf(t, "defence")
        active == ActiveFrom(PreDefences, 1, call.fit)
        out(k) == DefenceCall(PreDefences[d[k].idx], d[k].x, d[k].y)
        y1 == check_and_transform_label_format(call.y, nb_classes(clf))
        last == Len(d)
    IN /\ t[1].op = "check_and_transform_label_format" /\ t[1].y = call.y
       /\ \A k \in 2..Len(t) : t[k].op # "check_and_transform_label_format"
       /\ [k \in DOMAIN d |-> d[k].idx] = active
       /\ \A k \in 1..last : t[k + 1] = d[k]
       /\ last > 0 => (d[1].x = call.x /\ d[1].y = y1)
       /\ \A k \in 2..last : d[k].x = out(k - 1).x /\ d[k].y = out(k - 1).y
       /\ t[last + 2].op = "standardisation"
       /\ t[last + 2].x = (IF last = 0 THEN call.x ELSE out(last).x)
       /\ call.y_preprocessed = (IF last = 0 THEN y1 ELSE out(last).y)
       /\ \A k \in (last + 3)..Len(t) : t[k].op \in {"subtract", "divide"}

\* A fit-mode call on index labels skipped the first defence (apply_fit false)
\* and called the second.
C4_Witness ==
    /\ IsForwardCall
    /\ call.fit
    /\ call.y.fmt = "index"
    /\ Len(PreDefences) = 2
    /\ ~PreDefences[1].apply_fit /\ PreDefences[1].apply_predict
    /\ PreDefences[2].apply_fit /\ ~PreDefences[2].apply_predict
    /\ CalledIdx(call.trace, "defence") = <<2>>

\* C5 as stated: the defences called backward are the reversal of the defences
\* the forward pipeline calls on the same input, whatever the forward mode.
C5_Original ==
    IsGradientCall =>
        \A fit \in BOOLEAN :
            CalledIdx(call.trace, "estimate_gradient")
                = Reverse(CalledIdx(_apply_preprocessing(clf, call.x, NoLabels, fit).trace,
                                    "defence"))

\* C5 (amended): the defences whose estimate_gradient the backward pipeline
\* calls are the reversal of the defences the forward pipeline calls on the
\* same input in predict mode (fit = False); they are the reversal of a
\* fit-mode forward pass as well when every defence has apply_fit equal to
\* apply_predict.
C5_ReverseOfPredictForward ==
    IsGradientCall =>
    LET back == CalledIdx(call.trace, "estimate_gradient")
        fwd(fit) == CalledIdx(_apply_preprocessing(clf, call.x, NoLabels, fit).trace,
                              "defence")
    IN /\ back = Reverse(fwd(FALSE))
       /\ (\A i \in DOMAIN PreDefences :
              PreDefences[i].apply_fit = PreDefences[i].apply_predict) =>
             back = Reverse(fwd(TRUE))

\* Two defences active in predict mode: the forward pass calls 1 then 2, the
\* backward pass called 2 then 1.
C5_Witness ==
    /\ IsGradientCall
    /\ Len(PreDefences) = 2
    /\ PreDefences[1].name = "Shift" /\ PreDefences[2].name = "Double"
    /\ CalledIdx(_apply_preprocessing(clf, call.x, NoLabels, FALSE).trace, "defence") = <<1, 2>>
    /\ CalledIdx(call.trace, "estimate_gradient") = <<2, 1>>

\* C8: _apply_postprocessing leaves the array it is given as it was, hands the
\* defences only arrays other than preds, calls exactly the defences whose
\* flag for the mode is true, in list order, and returns an array object other
\* than preds, also when no defence is configured or active.
C8_PostprocessingOnCopy ==
    IsPostCall =>
    LET d == EventsOf(call.trace, "defence")
    IN /\ call.heap[call.preds] = call.heap_before[call.preds]
       /\ call.ret # call.preds
       /\ \A k \in DOMAIN d : d[k].preds # call.preds
       /\ [k \in DOMAIN d |-> d[k].idx] = ActiveFrom(PostDefences, 1, call.fit)
       /\ d = <<>> => call.heap[call.ret] = call.heap_before[call.preds]

\* A defence that writes into the array it receives was called, and the
\* caller's array still holds the predictions it held before.
C8_Witness ==
    /\ IsPostCall
    /\ Len(PostDefences) >= 1
    /\ PostDefences[1].name = "InPlace"
    /\ CalledIdx(call.trace, "defence") = <<1>>
    /\ call.heap[call.ret] # call.heap_before[call.preds]
    /\ call.heap[call.preds] = call.heap_before[call.preds]

\* No preprocessing defence is configured (None or an empty list).
NoPreDefences == PreDefences = <<>>

\* C9 as stated: without defences the forward pipeline returns
\* (x - subtract) / divide with the pair as configured, and x itself when no
\* pair is configured.
C9_Original ==
    (IsForwardCall /\ NoPreDefences) =>
        /\ call.raised = "none"
        /\ IF clf.preprocessing.kind = "none"
           THEN call.x_preprocessed = call.x
           ELSE \A i \in DOMAIN call.x.data : \A j \in DOMAIN call.x.data[i] :
                   call.x_preprocessed.data[i][j] =
                       RDiv(RSub(call.x.data[i][j], clf.preprocessing.v[1]),
                            clf.preprocessing.v[2])

\* C9 (amended): without defences, an x of unsigned integer type raises
\* TypeError whether or not a pair is configured; any other x is returned as
\* it is when no pair is configured, and otherwise as (x - s) / d element-wise
\* with s and d the configured subtract and divide converted to x's element
\* type (truncated for an integer x, unchanged for a floating-point x); for
\* clip_values (0, 1), the pair (0.5, 0.5) and the floating-point x
\* [[1.0, 0.0]] the result is [[1.0, -1.0]].
C9_Standardisation ==
    (IsForwardCall /\ NoPreDefences) =>
    LET pp == clf.preprocessing
        x == call.x
        isInt == x.dtype \in IntDtypes
        conv(v) == IF isInt
                   THEN Int2R(IF v.n >= 0 THEN v.n \div v.d ELSE -((-v.n) \div v.d))
                   ELSE v
    IN IF x.dtype \in UnsignedDtypes
       THEN call.raised = "TypeError"
       ELSE /\ call.raised = "none"
            /\ pp.kind = "none" => call.x_preprocessed = x
            /\ pp.kind # "none" =>
                 /\ DOMAIN call.x_preprocessed.data = DOMAIN x.data
                 /\ \A i \in DOMAIN x.data :
                      /\ DOMAIN call.x_preprocessed.data[i] = DOMAIN x.data[i]
                      /\ \A j \in DOMAIN x.data[i] :
                           /\ call.x_preprocessed.data[i][j] =
                                 RDiv(RSub(x.data[i][j], conv(pp.v[1])), conv(pp.v[2]))
                           /\ ~isInt => call.x_preprocessed.data[i][j] =
                                 RDiv(RSub(x.data[i][j], pp.v[1]), pp.v[2])
            /\ (clf.clip_values = UnitClip /\ pp = TupleOf(<<Half, Half>>)
                  /\ ~isInt /\ x.data = <<<<Int2R(1), Int2R(0)>>>>) =>
                 call.x_preprocessed.data = <<<<[n |-> 1, d |-> 1], [n |-> -1, d |-> 1]>>>>

\* The scenario of the specification: (0.5, 0.5) applied to [[1.0, 0.0]].
C9_Witness ==
    /\ IsForwardCall
    /\ NoPreDefences
    /\ clf.clip_values = UnitClip
    /\ clf.preprocessing = TupleOf(<<Half, Half>>)
    /\ call.x = Arr("float32", <<<<Int2R(1), Int2R(0)>>>>)
    /\ call.raised = "none"
    /\ call.x_preprocessed.data = <<<<[n |-> 1, d |-> 1], [n |-> -1, d |-> 1]>>>>

(***************************************************************************)
(* The input_filter metaclass: predict, get_activations, class_gradient    *)
(* (no y) and fit, loss_gradient (with y) are replaced by a wrapper that   *)
(* turns x and y into arrays before calling the class's own method.        *)
(*                                                                         *)
(* A Python argument value is [type, dtype, vals]: a nested list, an       *)
(* ndarray or None.  The positional arguments are a sequence; the keyword  *)
(* arguments are [x, y], each [given, val].                                *)
(***************************************************************************)
PyList(vals) == [type |-> "list", dtype |-> "", vals |-> vals]
NdArray(vals) == [type |-> "ndarray", dtype |-> "float64", vals |-> vals]
PyNone == [type |-> "NoneType", dtype |-> "", vals |-> <<>>]

NotGiven == [given |-> FALSE, val |-> PyNone]
Given(val) == [given |-> TRUE, val |-> val]

\* np.array(value): a list becomes the array of its values, None becomes a
\* 0-dimensional object array, an array is copied.
np_array(value) ==
    IF value.type = "NoneType" THEN [type |-> "ndarray", dtype |-> "object", vals |-> <<>>]
    ELSE IF value.type = "list" THEN [type |-> "ndarray", dtype |-> "float64", vals |-> value.vals]
    ELSE value

\* isinstance(value, np.ndarray)
is_ndarray(value) == value.type = "ndarray"

replacement_list_no_y == {"predict", "get_activations", "class_gradient"}
replacement_list_has_y == {"fit", "loss_gradient"}

\* if not isinstance(kwargs["x"], np.ndarray): kwargs["x"] = np.array(kwargs["x"])
coerce_kwargs_x(kwargs) ==
    IF ~is_ndarray(kwargs.x.val) THEN [kwargs EXCEPT !.x.val = np_array(@)] ELSE kwargs

\* if not isinstance(args[0], np.ndarray): lst[0] = np.array(args[0])
coerce_args_0(lst) ==
    IF ~is_ndarray(lst[1]) THEN [lst EXCEPT ![1] = np_array(@)] ELSE lst

\* if kwargs["y"] is not None and not isinstance(kwargs["y"], np.ndarray): ...
coerce_kwargs_y(kwargs) ==
    IF kwargs.y.val.type # "NoneType" /\ ~is_ndarray(kwargs.y.val)
    THEN [kwargs EXCEPT !.y.val = np_array(@)] ELSE kwargs

\* args[1] passed on as it is.
leave_args_1(lst) == lst

\* if not isinstance(args[1], np.ndarray): lst[1] = np.array(args[1])
coerce_args_1(lst) ==
    IF ~is_ndarray(lst[2]) THEN [lst EXCEPT ![2] = np_array(@)] ELSE lst

\* Binding of (*args, **kwargs) to the parameters (x, y) of the class's own
\* fit / loss_gradient, or (x, second) of its predict / get_activations /
\* class_gradient: [raised, x, y, second].
bind_parameters(has_y, args, kwargs) ==
    IF (Len(args) >= 1 /\ kwargs.x.given) \/ (Len(args) = 0 /\ ~kwargs.x.given)
    THEN [raised |-> "TypeError", x |-> PyNone, y |-> PyNone, second |-> PyNone]
    ELSE LET x == IF Len(args) >= 1 THEN args[1] ELSE kwargs.x.val
         IN IF has_y
            THEN IF (Len(args) >= 2 /\ kwargs.y.given) \/ (Len(args) < 2 /\ ~kwargs.y.given)
                 THEN [raised |-> "TypeError", x |-> PyNone, y |-> PyNone, second |-> PyNone]
                 ELSE [raised |-> "none", x |-> x,
                       y |-> IF Len(args) >= 2 THEN args[2] ELSE kwargs.y.val,
                       second |-> PyNone]
            ELSE [raised |-> "none", x |-> x,
                  y |-> IF kwargs.y.given THEN kwargs.y.val ELSE PyNone,
                  second |-> IF Len(args) >= 2 THEN args[2] ELSE PyNone]

\* replacement_function(self, *args, **kwargs): what the class's own method
\* receives, or the IndexError of args[0] / args[1].
replacement_function(has_y, args, kwargs) ==
    IF ~kwargs.x.given /\ Len(args) < 1
    THEN [raised |-> "IndexError", x |-> PyNone, y |-> PyNone, second |-> PyNone]
    ELSE LET kw1 == IF kwargs.x.given THEN coerce_kwargs_x(kwargs) ELSE kwargs
             lst1 == IF kwargs.x.given THEN args ELSE coerce_args_0(args)
         IN IF ~kw1.y.given /\ has_y /\ Len(args) < 2
            THEN [raised |-> "IndexError", x |-> PyNone, y |-> PyNone, second |-> PyNone]
            ELSE LET kw2 == IF kw1.y.given THEN coerce_kwargs_y(kw1) ELSE kw1
                     lst2 == IF ~kw1.y.given /\ has_y THEN coerce_args_1(lst1) ELSE lst1
                 IN bind_parameters(has_y, lst2, kw2)

(***************************************************************************)
(* ClassifierNeuralNetwork.layer_names.  A concrete class is described by  *)
(* whether it defines its own layer_names property and what that returns.  *)
(***************************************************************************)
ConcreteClasses ==
    {[defines_layer_names |-> FALSE, names |-> <<>>],
     [defines_layer_names |-> TRUE, names |-> <<>>],
     [defines_layer_names |-> TRUE, names |-> <<"dense_1">>]}

\* The property as read on an instance: the class's own, or the base class's
\* raise NotImplementedError.
layer_names(self) ==
    IF self.cls.defines_layer_names
    THEN [raised |-> "none", result |-> self.cls.names]
    ELSE [raised |-> "NotImplementedError", result |-> <<>>]

(***************************************************************************)
(* SpecCalls: a concrete classifier is constructed, its wrapped entry      *)
(* points are called in every argument form, and layer_names is read.      *)
(***************************************************************************)
EntryValues == {PyList(<<1, 2>>), NdArray(<<1, 2>>), PyNone}

\* Positional arguments: none, x, or x and a second argument.
EntryArgs ==
    {<<>>}
    \cup {<<x>> : x \in EntryValues \ {PyNone}}
    \cup {<<x, second>> : x \in EntryValues \ {PyNone}, second \in EntryValues}

EntryKwargs ==
    {[x |-> kx, y |-> ky] :
        kx \in {NotGiven} \cup {Given(v) : v \in EntryValues \ {PyNone}},
        ky \in {NotGiven} \cup {Given(v) : v \in EntryValues}}

ConstructConcrete ==
    /\ clf = NoInstance
    /\ call = NoCall
    /\ \E cls \in ConcreteClasses :
        LET r == Classifier__init__(UnitClip, NoneVal, NoneVal, NoneVal)
        IN /\ clf' = (r.self @@ [cls |-> cls])
           /\ call' = [op |-> "__init__", raised |-> r.raised]

CallEntryPoint ==
    /\ clf.constructed
    /\ \E name \in replacement_list_no_y \cup replacement_list_has_y,
          args \in EntryArgs, kwargs \in EntryKwargs :
        LET has_y == name \in replacement_list_has_y
            r == replacement_function(has_y, args, kwargs)
        IN call' = [op |-> "entry", name |-> name, has_y |-> has_y,
                    args |-> args, kwargs |-> kwargs,
                    raised |-> r.raised, x |-> r.x, y |-> r.y, second |-> r.second]
    /\ UNCHANGED clf

ReadLayerNames ==
    /\ clf.constructed
    /\ LET r == layer_names(clf)
       IN call' = [op |-> "layer_names", raised |-> r.raised, result |-> r.result]
    /\ UNCHANGED clf

NextCalls ==
    \/ ConstructConcrete
    \/ CallEntryPoint
    \/ ReadLayerNames

SpecCalls == Init /\ [][NextCalls]_vars

\* The array np.array makes of a list or an array of numbers.
AsArray(v) == [type |-> "ndarray", dtype |-> "float64", vals |-> v.vals]

\* A call that passes x exactly once and, for fit and loss_gradient, a label
\* array y exactly once, the positional arguments being x first and y second.
WellFormedEntry ==
    /\ call.op = "entry"
    /\ \/ (Len(call.args) >= 1 /\ ~call.kwargs.x.given /\ call.args[1] # PyNone)
       \/ (Len(call.args) = 0 /\ call.kwargs.x.given)
    /\ IF call.has_y
       THEN \/ (Len(call.args) = 2 /\ ~call.kwargs.y.given /\ call.args[2] # PyNone)
            \/ (Len(call.args) < 2 /\ call.kwargs.y.given /\ call.kwargs.y.val # PyNone)
       ELSE ~call.kwargs.y.given

\* The x and the y a call passes.
PassedX == IF Len(call.args) >= 1 THEN call.args[1] ELSE call.kwargs.x.val
PassedY == IF Len(call.args) >= 2 THEN call.args[2] ELSE call.kwargs.y.val

\* C6: for each of the five entry points, however x and y are passed
\* (positionally or by keyword), the class's own method is reached without an
\* error, receives x (and y, for fit and loss_gradient) as arrays of the values
\* passed, and receives exactly what it receives when the caller passes the
\* arrays themselves.
C6_InputsCoerced ==
    WellFormedEntry =>
    LET arrayArgs == [k \in DOMAIN call.args |->
                        IF k = 1 \/ call.has_y THEN AsArray(call.args[k]) ELSE call.args[k]]
        arrayKwargs == [x |-> IF call.kwargs.x.given THEN Given(AsArray(call.kwargs.x.val))
                              ELSE NotGiven,
                        y |-> IF call.kwargs.y.given THEN Given(AsArray(call.kwargs.y.val))
                              ELSE NotGiven]
    IN /\ call.raised = "none"
       /\ call.x = AsArray(PassedX)
       /\ call.has_y => call.y = AsArray(PassedY)
       /\ [raised |-> call.raised, x |-> call.x, y |-> call.y, second |-> call.second]
             = replacement_function(call.has_y, arrayArgs, arrayKwargs)

\* loss_gradient was called with two nested lists passed positionally and its
\* own method received two arrays.
C6_Witness ==
    /\ call.op = "entry"
    /\ call.name = "loss_gradient"
    /\ call.args = <<PyList(<<1, 2>>), PyList(<<1, 2>>)>>
    /\ call.kwargs = [x |-> NotGiven, y |-> NotGiven]
    /\ call.raised = "none"
    /\ call.x = NdArray(<<1, 2>>)
    /\ call.y = NdArray(<<1, 2>>)

\* C10 as stated: reading layer_names never raises.
C10_LayerNamesNeverRaises ==
    call.op = "layer_names" => call.raised = "none"

(***************************************************************************)
(* ClassifierNeuralNetwork.fit_generator.  A generator is [size,           *)
(* batch_size, dtype]; the k-th batch it hands out holds the features      *)
(* [[k, 0]] of its dtype and the class index k mod 2.                      *)
(***************************************************************************)
\* generator.get_batch(), for the k-th time.
get_batch(generator, k) ==
    [x |-> Arr(generator.dtype, <<<<Int2R(k), Int2R(0)>>>>),
     y |-> IndexLabels(<<<<k % 2>>>>)]

\* The number of batches rounded up instead of truncated.
batches_per_epoch_rounded_up(generator) ==
    (generator.size + generator.batch_size - 1) \div generator.batch_size

\* int(generator.size / generator.batch_size)
batches_per_epoch(generator) == Trunc(R(generator.size, generator.batch_size)).n

\* The two nested loops, at epoch `epoch` and batch `batch` of it, `pulled`
\* batches having been pulled.  An exception of _apply_preprocessing leaves
\* the loops.
RECURSIVE fit_generator_loop(_, _, _, _, _, _, _)
fit_generator_loop(self, generator, nb_epochs, epoch, batch, pulled, trace) ==
    IF epoch > nb_epochs THEN [raised |-> "none", trace |-> trace]
    ELSE IF batch > batches_per_epoch(generator)
    THEN fit_generator_loop(self, generator, nb_epochs, epoch + 1, 1, pulled, trace)
    ELSE LET b == get_batch(generator, pulled + 1)
             r == _apply_preprocessing(self, b.x, b.y, TRUE)
             t1 == trace \o <<[op |-> "get_batch", k |-> pulled + 1],
                               [op |-> "_apply_preprocessing", x |-> b.x, y |-> b.y,
                                fit |-> TRUE]>>
         IN IF r.raised # "none"
            THEN [raised |-> r.raised, trace |-> t1]
            ELSE fit_generator_loop(self, generator, nb_epochs, epoch, batch + 1,
                    pulled + 1,
                    Append(t1, [op |-> "fit", x |-> r.x, y |-> r.y, nb_epochs |-> 1,
                                batch_size |-> generator.batch_size]))

fit_generator(self, generator, nb_epochs) ==
    fit_generator_loop(self, generator, nb_epochs, 1, 1, 0, <<>>)

(***************************************************************************)
(* SpecFit: a classifier is constructed and fit_generator is called.       *)
(***************************************************************************)
FitDefenceLists ==
    {NoneVal,
     ListOf(<<Defence("Shift", TRUE, FALSE)>>),
     ListOf(<<Defence("Double", TRUE, TRUE)>>),
     ListOf(<<Defence("Shift", FALSE, TRUE), Defence("Double", TRUE, FALSE)>>)}

Generators ==
    {[size |-> n, batch_size |-> b, dtype |-> t] :
        n \in 0..MaxSize, b \in {1, 2, 3}, t \in {"float32", "uint8"}}

ConstructForFit ==
    \E pre \in FitDefenceLists, pp \in {NoneVal, TupleOf(<<Half, Half>>)} :
        ConstructWith(UnitClip, pre, NoneVal, pp)

FitGeneratorWith(generator, nb_epochs) ==
    /\ clf.constructed
    /\ LET r == fit_generator(clf, generator, nb_epochs)
       IN call' = [op |-> "fit_generator", generator |-> generator,
                   nb_epochs |-> nb_epochs, raised |-> r.raised, trace |-> r.trace]
    /\ UNCHANGED clf

FitGenerator ==
    \E generator \in Generators, nb_epochs \in 0..MaxEpochs :
        FitGeneratorWith(generator, nb_epochs)

NextFit ==
    \/ ConstructForFit
    \/ FitGenerator

SpecFit == Init /\ [][NextFit]_vars

\* C7 as stated: every fit_generator call makes exactly
\* nb_epochs * floor(size / batch_size) iterations, each with one get_batch,
\* one forward preprocessing and one fit.
C7_Original ==
    call.op = "fit_generator" =>
    LET n == call.nb_epochs * (call.generator.size \div call.generator.batch_size)
    IN /\ Len(EventsOf(call.trace, "get_batch")) = n
       /\ Len(EventsOf(call.trace, "_apply_preprocessing")) = n
       /\ Len(EventsOf(call.trace, "fit")) = n

\* C7 (amended): a fit_generator call in which the preprocessing of no batch
\* raises makes exactly nb_epochs * floor(size / batch_size) iterations, each
\* one get_batch, one forward preprocessing of that batch with fit = True and
\* one fit of the preprocessed batch with nb_epochs = 1 and the generator's
\* batch size, in this order; with size < batch_size or nb_epochs = 0 nothing
\* is called.  A call in which the preprocessing of a batch raises has made
\* the same iterations up to that batch and ends with that error, fit not
\* being called for the batch and no further batch being pulled.
C7_FitGeneratorIterations ==
    call.op = "fit_generator" =>
    LET g == call.generator
        n == call.nb_epochs * (g.size \div g.batch_size)
        t == call.trace
        iter(k) == (k + 2) \div 3
        pre(i) == _apply_preprocessing(clf, get_batch(g, i).x, get_batch(g, i).y, TRUE)
    IN /\ call.raised = "none" => Len(t) = 3 * n
       /\ \A k \in DOMAIN t :
            /\ k % 3 = 1 => t[k] = [op |-> "get_batch", k |-> iter(k)]
            /\ k % 3 = 2 => t[k] = [op |-> "_apply_preprocessing", fit |-> TRUE,
                                    x |-> get_batch(g, iter(k)).x,
                                    y |-> get_batch(g, iter(k)).y]
            /\ k % 3 = 0 => t[k] = [op |-> "fit", x |-> pre(iter(k)).x,
                                    y |-> pre(iter(k)).y, nb_epochs |-> 1,
                                    batch_size |-> g.batch_size]
       /\ (g.size < g.batch_size \/ call.nb_epochs = 0) =>
            (t = <<>> /\ call.raised = "none")
       /\ call.raised # "none" =>
            /\ Len(t) % 3 = 2
            /\ Len(t) < 3 * n
            /\ pre(iter(Len(t))).raised = call.raised

\* Two epochs over a generator of size 3 and batch size 2: one batch per
\* epoch, two iterations, each ending in a fit call.
C7_Witness ==
    /\ call.op = "fit_generator"
    /\ call.generator.size = 3 /\ call.generator.batch_size = 2
    /\ call.nb_epochs = 2
    /\ Len(PreDefences) = 2
    /\ call.raised = "none"
    /\ Len(call.trace) = 6
    /\ call.trace[6].op = "fit"

(***************************************************************************)
(* Properties of the backward pipeline and of the dtype check (Spec).      *)
(***************************************************************************)
\* The instance with its subtract term replaced by s.
WithSubtract(self, s) ==
    [self EXCEPT !.preprocessing = TupleOf(<<s, self.preprocessing.v[2]>>)]

\* C12: the backward pipeline first divides the incoming gradient, element by
\* element, by the configured divide factor and hands the quotient to the
\* first defence it calls (it is the result when no defence is called); every
\* estimate_gradient call comes after the division; replacing the subtract
\* term by any other value changes neither the calls nor the result; and with
\* no pair configured the first defence called receives the incoming gradient
\* itself.
C12_DivideThenDefences ==
    IsGradientCall =>
    LET t == call.trace
        est == EventsOf(t, "estimate_gradient")
        pp == clf.preprocessing
        divided == IF pp.kind = "none" THEN call.gradients
                   ELSE Arr(call.gradients.dtype, DivAll(call.gradients.data, pp.v[2]))
    IN /\ t[1] = [op |-> "normalization_gradient", gradients |-> call.gradients]
       /\ \A k \in 2..Len(t) : t[k].op = "estimate_gradient"
       /\ est # <<>> => est[1].gradients = divided
       /\ est = <<>> => call.result = divided
       /\ pp.kind # "none" =>
             \A s \in {Zero, Half, One, Two, Int2R(-1)} :
                LET r == _apply_preprocessing_gradient(WithSubtract(clf, s), call.x,
                                                       call.gradients)
                IN r.gradients = call.result /\ r.trace = call.trace

\* The gradient [[1, 2]] was divided by 0.5 to [[2, 4]] before the one
\* defence, a doubling, received it and returned [[4, 8]].
C12_Witness ==
    /\ IsGradientCall
    /\ clf.preprocessing = TupleOf(<<Half, Half>>)
    /\ PreDefences = <<Defence("Double", FALSE, TRUE)>>
    /\ call.gradients = Arr("float32", <<<<Int2R(1), Int2R(2)>>>>)
    /\ Len(call.trace) = 2
    /\ call.trace[2].op = "estimate_gradient"
    /\ call.trace[2].gradients.data = <<<<Int2R(2), Int2R(4)>>>>
    /\ call.result.data = <<<<Int2R(4), Int2R(8)>>>>

\* The instance with the apply_fit flag of every preprocessing defence negated.
FlipApplyFit(self) ==
    IF self.preprocessing_defences.kind = "none" THEN self
    ELSE [self EXCEPT !.preprocessing_defences =
             ListOf([i \in DOMAIN @.v |-> [@.v[i] EXCEPT !.apply_fit = ~@]])]

\* The instance with only its defences whose apply_predict is true.
OnlyApplyPredict(self) ==
    IF self.preprocessing_defences.kind = "none" THEN self
    ELSE [self EXCEPT !.preprocessing_defences =
             ListOf(SelectSeq(@.v, LAMBDA d : d.apply_predict))]

\* C13: the backward pipeline calls estimate_gradient on exactly the
\* preprocessing defences whose apply_predict is true, last first; negating
\* every apply_fit flag changes neither the calls nor the result; a defence
\* with apply_fit true and apply_predict false is called by the fit-mode
\* forward pipeline on the same x and is not called backward, the gradient
\* returned being the one of the classifier without such defences.
C13_BackwardPredictMode ==
    IsGradientCall =>
    LET back == CalledIdx(call.trace, "estimate_gradient")
        fwdFit == CalledIdx(_apply_preprocessing(clf, call.x, NoLabels, TRUE).trace,
                            "defence")
        flipped == _apply_preprocessing_gradient(FlipApplyFit(clf), call.x, call.gradients)
        pruned == _apply_preprocessing_gradient(OnlyApplyPredict(clf), call.x,
                                                call.gradients)
    IN /\ back = Reverse(ActiveFrom(PreDefences, 1, FALSE))
       /\ \A i \in DOMAIN PreDefences :
             (\E k \in DOMAIN back : back[k] = i) <=> PreDefences[i].apply_predict
       /\ flipped.gradients = call.result /\ flipped.trace = call.trace
       /\ \A i \in DOMAIN PreDefences :
             (PreDefences[i].apply_fit /\ ~PreDefences[i].apply_predict) =>
                /\ \E k \in DOMAIN fwdFit : fwdFit[k] = i
                /\ \A k \in DOMAIN back : back[k] # i
       /\ pruned.gradients = call.result

\* A doubling defence active in fit mode only, followed by an always-active
\* shift: the fit-mode forward pass calls both, the backward pass called the
\* shift alone and returned the gradient undoubled.
C13_Witness ==
    /\ IsGradientCall
    /\ PreDefences = <<Defence("Double", TRUE, FALSE), Defence("Shift", TRUE, TRUE)>>
    /\ clf.preprocessing = NoneVal
    /\ CalledIdx(_apply_preprocessing(clf, call.x, NoLabels, TRUE).trace, "defence")
          = <<1, 2>>
    /\ CalledIdx(call.trace, "estimate_gradient") = <<2>>
    /\ call.result = call.gradients

\* C14: whenever the array that reaches _apply_preprocessing_standardisation
\* has element type uint8, uint16, uint32 or uint64, TypeError is raised and
\* neither subtraction nor division is made, with a (subtract, divide) pair
\* configured and with none; in particular an unsigned x given to a classifier
\* without defences and without a pair is rejected, not returned.
C14_UnsignedRejected ==
    IsForwardCall =>
    LET std == EventsOf(call.trace, "standardisation")
    IN /\ Len(std) = 1
       /\ \A t \in UnsignedDtypes :
             std[1].x.dtype = t =>
                /\ call.raised = "TypeError"
                /\ EventsOf(call.trace, "subtract") = <<>>
                /\ EventsOf(call.trace, "divide") = <<>>
       /\ (call.x.dtype \in UnsignedDtypes /\ NoPreDefences) =>
             call.raised = "TypeError"

\* A uint64 input to a classifier without defences and without a pair was
\* rejected.
C14_Witness ==
    /\ IsForwardCall
    /\ call.x.dtype = "uint64"
    /\ NoPreDefences
    /\ clf.preprocessing = NoneVal
    /\ call.raised = "TypeError"

(***************************************************************************)
(* SpecLife: a classifier is constructed once, and its forward, backward   *)
(* and postprocessing pipelines and fit_generator are called in any order, *)
(* any number of times.                                                    *)
(***************************************************************************)
\* Instances that hold all four parts of the configuration at once: lists of
\* always-active defences, clip values, and a pair or None.
ConstructLife ==
    \E pre \in DefenceLists({Defence(n, TRUE, TRUE) : n \in PreprocessorNames}),
       post \in DefenceLists({Defence(n, TRUE, TRUE) : n \in PostprocessorNames}),
       pp \in {NoneVal, TupleOf(<<Half, Half>>)} :
        ConstructWith(UnitClip, pre, post, pp)

\* Generators of two batches per epoch: one of floats, one of uint8 features.
LifeGenerators ==
    {[size |-> 2, batch_size |-> 1, dtype |-> t] : t \in {"float32", "uint8"}}

FitGeneratorLife ==
    \E generator \in LifeGenerators, nb_epochs \in {1, MaxEpochs} :
        FitGeneratorWith(generator, nb_epochs)

NextLife ==
    \/ ConstructLife
    \/ ApplyPreprocessing
    \/ ApplyPreprocessingGradient
    \/ ApplyPostprocessing
    \/ FitGeneratorLife

SpecLife == Init /\ [][NextLife]_vars

\* The configuration of an instance.
Configuration(self) ==
    [preprocessing_defences |-> self.preprocessing_defences,
     postprocessing_defences |-> self.postprocessing_defences,
     preprocessing |-> self.preprocessing,
     clip_values |-> self.clip_values]

\* C11: once a classifier is constructed, every step (a call of the forward
\* pipeline, the backward pipeline, the postprocessing pipeline or
\* fit_generator) leaves an instance whose preprocessing defence list,
\* postprocessing defence list (contents and order), (subtract, divide) pair
\* and clip values are those it had before the step, hence, over any sequence
\* of calls, those it had at construction.
C11_ConfigurationFixed ==
    [][clf.constructed =>
          (clf'.constructed /\ Configuration(clf') = Configuration(clf))]_vars

\* The backward pipeline has walked two different defences, last first, and
\* the list still holds them in the order given at construction.
C11_Witness ==
    /\ IsGradientCall
    /\ clf.preprocessing_defences =
          ListOf(<<Defence("Shift", TRUE, TRUE), Defence("Double", TRUE, TRUE)>>)
    /\ clf.postprocessing_defences =
          ListOf(<<Defence("InPlace", TRUE, TRUE), Defence("Fresh", TRUE, TRUE)>>)
    /\ clf.preprocessing = TupleOf(<<Half, Half>>)
    /\ clf.clip_values = UnitClip
    /\ CalledIdx(call.trace, "estimate_gradient") = <<2, 1>>

====
